---- MODULE Spec2Model ----
(***************************************************************************)
(* Model of lib/coverage: the frequency-aggregation and importance-scoring *)
(* functions of birdplan.app (calculateSpeciesCoverage,                    *)
(* isLowCoverageSpecies, getHotspotSpeciesImportance,                      *)
(* getDaySpeciesImportance, getBestHotspotsForSpecies,                     *)
(* getAllHotspotsForSpecies).                                              *)
(*                                                                         *)
(* Number representation.  percent, percentYr, maxPercent, maxPercentYr,   *)
(* weightedAvgPercent and bestPercent are JavaScript numbers; they are     *)
(* held here as integers counting hundredths of a percentage point         *)
(* (4000 is 40%, 25 is 0.25%).  maxObservations and maxObservationsYr are  *)
(* held as integers counting 1/10000 of an observation, so that            *)
(* (percent * N) / 100 is the integer percent * N.  All input values are   *)
(* exactly representable as doubles, so the arithmetic below is exact.     *)
(* A value that is undefined in the code is the string Undefined where a   *)
(* string is expected, and the empty sequence where an object is expected  *)
(* (an optional object o is << >> or <<o>>).                               *)
(***************************************************************************)
EXTENDS Integers, Sequences, FiniteSets, TLC

\* allTargets, itinerary, hotspotDirectory: the input snapshot (the last is the
\* directory of { id, name }).  call: the operation invoked and its other
\* arguments.  The value returned by calculateSpeciesCoverage (coverageMap),
\* isLowCoverageSpecies (isLow), getHotspotSpeciesImportance (hotspotResult),
\* getDaySpeciesImportance (dayResult) and getBestHotspotsForSpecies or
\* getAllHotspotsForSpecies (rows).
VARIABLES allTargets, itinerary, hotspotDirectory, call, coverageMap, isLow, hotspotResult,
          dayResult, rows

vars == <<allTargets, itinerary, hotspotDirectory, call, coverageMap, isLow, hotspotResult,
          dayResult, rows>>

Undefined == "undefined"

\* ---------------------------------------------------------------- bounds
MaxTargets == 2
MaxDays == 2

\* ------------------------------------------------------ program constants
DefaultTopN == 5
DefaultPercentThreshold == 15
DefaultObservationsThreshold == 10
BEST_DAY_MIN_LEAD_PERCENT == 5
\* lib/config, imported at line 2; 5 per the comment at line 258
HOTSPOT_TARGET_CUTOFF == 5

\* ----------------------------------------------------------- input values
Codes == {"ROBI", "X"}

HotspotIdAt(i) == <<"H1", "H2", "H3", "H4">>[i]

HotspotIds == {HotspotIdAt(i) : i \in 1..(MaxTargets + 1)}

\* ---------------------------------------------------------------- helpers
MinOf(a, b) == IF a < b THEN a ELSE b

MaxOf(a, b) == IF a > b THEN a ELSE b

\* Array.prototype.find on an items array, as an optional object
FindItem(items, code) ==
  LET idx == {i \in 1..Len(items) : items[i].code = code}
  IN IF idx = {} THEN << >>
     ELSE <<items[CHOOSE i \in idx : \A j \in idx : i <= j]>>

\* Array.prototype.find on allTargets by hotspotId, as an optional object
FindTarget(targets, hotspotId) ==
  LET idx == {i \in 1..Len(targets) : targets[i].hotspotId = hotspotId}
  IN IF idx = {} THEN << >>
     ELSE <<targets[CHOOSE i \in idx : \A j \in idx : i <= j]>>

\* Array.prototype.sort with comparator (a, b) => key(b) - key(a): a stable
\* sort, descending by key.  keys[i] is the key of s[i].
\* (variant: a sort that reverses the input order of equal keys)
SortPositionUnstable(keys, i) ==
  1 + Cardinality({j \in 1..Len(keys) :
                     keys[j] > keys[i] \/ (keys[j] = keys[i] /\ j > i)})

SortPosition(keys, i) ==
  1 + Cardinality({j \in 1..Len(keys) :
                     keys[j] > keys[i] \/ (keys[j] = keys[i] /\ j < i)})

\* (variant: the array is left in the order it has)
StableSortDescOmitted(s, keys) == s

StableSortDesc(s, keys) ==
  [p \in 1..Len(s) |-> s[CHOOSE i \in 1..Len(s) : SortPosition(keys, i) = p]]

\* Array.prototype.slice(0, end)
\* (variant: the element at index end is included)
Slice0Inclusive(s, end) ==
  LET e == IF end < 0 THEN MaxOf(Len(s) + end, 0) ELSE MinOf(end + 1, Len(s))
  IN SubSeq(s, 1, e)

Slice0(s, end) ==
  LET e == IF end < 0 THEN MaxOf(Len(s) + end, 0) ELSE MinOf(end, Len(s))
  IN SubSeq(s, 1, e)

RECURSIVE SumSeq(_)
SumSeq(s) == IF s = << >> THEN 0 ELSE SumSeq(SubSeq(s, 1, Len(s) - 1)) + s[Len(s)]

\* let m = 0; for (v of s) if (v > m) m = v
\* (variant: the comparison left out, the last value wins)
RunningMaxLast(s) == IF s = << >> THEN 0 ELSE s[Len(s)]

RECURSIVE RunningMax(_)
RunningMax(s) ==
  IF s = << >> THEN 0
  ELSE LET m == RunningMax(SubSeq(s, 1, Len(s) - 1))
       IN IF s[Len(s)] > m THEN s[Len(s)] ELSE m

\* Math.round(x * 10) / 10 of the quotient x = num / den (den > 0), where num
\* is in hundredths of a point; the value is again in hundredths.
\* Math.round is floor(y + 1/2).
\* (variant: Math.floor in place of Math.round)
RoundToTenthDown(num, den) == 10 * (num \div (10 * den))

RoundToTenth(num, den) == 10 * ((2 * num + 10 * den) \div (20 * den))

\* ------------------------------------------------ calculateSpeciesCoverage
\* !target.hotspotId
\* (variant: the skip of lines 45 and 86 left out)
LacksHotspotIdNever(target) == FALSE

LacksHotspotId(target) == target.hotspotId = Undefined

\* First pass, lines 44-57: the tuples pushed for one species code
RECURSIVE SpeciesHotspots(_, _)
SpeciesHotspots(targets, code) ==
  IF targets = << >> THEN << >>
  ELSE LET target == targets[Len(targets)]
           before == SpeciesHotspots(SubSeq(targets, 1, Len(targets) - 1), code)
           mine == SelectSeq(target.items, LAMBDA it : it.code = code)
       IN IF LacksHotspotId(target) THEN before
          ELSE before \o [k \in 1..Len(mine) |->
                            [percent |-> mine[k].percent, N |-> target.N,
                             hotspotId |-> target.hotspotId]]

\* keys of the speciesHotspots map
SpeciesHotspotsKeys(targets) ==
  {code \in Codes : SpeciesHotspots(targets, code) # << >>}

\* line 64
\* (variant: comparator a.percent - b.percent)
SortedHotspotsAscending(hotspots) ==
  StableSortDesc(hotspots, [i \in 1..Len(hotspots) |-> 0 - hotspots[i].percent])

SortedHotspots(hotspots) ==
  StableSortDesc(hotspots, [i \in 1..Len(hotspots) |-> hotspots[i].percent])

\* lines 85-95: the qualifying targets listing the species, with the item found
RescanTargets(targets, code) ==
  SelectSeq(targets, LAMBDA t : ~LacksHotspotId(t) /\ FindItem(t.items, code) # << >>)

\* lines 68-74
TotalWeightedPercent(topHotspots) ==
  SumSeq([k \in 1..Len(topHotspots) |-> topHotspots[k].percent * topHotspots[k].N])

\* (variant: a hotspot with N = 0 counts as one checklist)
TotalChecklistsAtLeastOne(topHotspots) ==
  SumSeq([k \in 1..Len(topHotspots) |-> MaxOf(topHotspots[k].N, 1)])

TotalChecklists(topHotspots) ==
  SumSeq([k \in 1..Len(topHotspots) |-> topHotspots[k].N])

\* lines 76 and 104
\* (variant: divides by the number of hotspots instead of the checklists)
WeightedAvgPercentByCount(topHotspots) ==
  IF TotalChecklists(topHotspots) > 0
  THEN RoundToTenth(TotalWeightedPercent(topHotspots), Len(topHotspots))
  ELSE 0

WeightedAvgPercent(topHotspots) ==
  IF TotalChecklists(topHotspots) > 0
  THEN RoundToTenth(TotalWeightedPercent(topHotspots), TotalChecklists(topHotspots))
  ELSE 0

\* lines 62-108, for one species
\* (variant: no bestHotspotId when the best percent is 0)
SpeciesCoverageOfPositiveBest(targets, code, topN) ==
  LET sortedHotspots == SortedHotspots(SpeciesHotspots(targets, code))
      topHotspots == Slice0(sortedHotspots, topN)
      best == sortedHotspots[1]
      scan == RescanTargets(targets, code)
      itemAt(k) == FindItem(scan[k].items, code)[1]
  IN [code |-> code,
      maxPercent |-> IF best.percent # 0 THEN best.percent ELSE 0,
      maxPercentYr |-> RunningMax([k \in 1..Len(scan) |-> itemAt(k).percentYr]),
      maxObservations |-> RunningMax([k \in 1..Len(scan) |-> itemAt(k).percent * scan[k].N]),
      maxObservationsYr |-> RunningMax([k \in 1..Len(scan) |-> itemAt(k).percentYr * scan[k].yrN]),
      bestHotspotId |-> IF best.percent # 0 THEN best.hotspotId ELSE Undefined,
      weightedAvgPercent |-> WeightedAvgPercent(topHotspots),
      totalChecklists |-> TotalChecklists(topHotspots),
      hotspotCount |-> Len(topHotspots)]

SpeciesCoverageOf(targets, code, topN) ==
  LET sortedHotspots == SortedHotspots(SpeciesHotspots(targets, code))
      topHotspots == Slice0(sortedHotspots, topN)
      best == sortedHotspots[1]
      scan == RescanTargets(targets, code)
      itemAt(k) == FindItem(scan[k].items, code)[1]
  IN [code |-> code,
      maxPercent |-> IF best.percent # 0 THEN best.percent ELSE 0,
      maxPercentYr |-> RunningMax([k \in 1..Len(scan) |-> itemAt(k).percentYr]),
      maxObservations |-> RunningMax([k \in 1..Len(scan) |-> itemAt(k).percent * scan[k].N]),
      maxObservationsYr |-> RunningMax([k \in 1..Len(scan) |-> itemAt(k).percentYr * scan[k].yrN]),
      bestHotspotId |-> best.hotspotId,
      weightedAvgPercent |-> WeightedAvgPercent(topHotspots),
      totalChecklists |-> TotalChecklists(topHotspots),
      hotspotCount |-> Len(topHotspots)]

calculateSpeciesCoverage(targets, topN) ==
  [code \in SpeciesHotspotsKeys(targets) |-> SpeciesCoverageOf(targets, code, topN)]

\* Map.prototype.get, as an optional object
MapGet(map, key) == IF key \in DOMAIN map THEN <<map[key]>> ELSE << >>

\* ---------------------------------------------------- isLowCoverageSpecies
\* coverage is an optional SpeciesCoverage; the thresholds are in points and
\* observations, the coverage fields in hundredths and in 1/10000.
\* (variant: && in place of ||)
isLowCoverageSpeciesBoth(coverage, percentThreshold, observationsThreshold) ==
  IF coverage = << >> THEN TRUE
  ELSE /\ coverage[1].maxPercent < percentThreshold * 100
       /\ coverage[1].maxObservations < observationsThreshold * 10000

isLowCoverageSpecies(coverage, percentThreshold, observationsThreshold) ==
  IF coverage = << >> THEN TRUE
  ELSE \/ coverage[1].maxPercent < percentThreshold * 100
       \/ coverage[1].maxObservations < observationsThreshold * 10000

\* --------------------------------------------- getHotspotSpeciesImportance
\* lines 148-152
\* (variant: a species that is best here is never critical)
HotspotSpeciesImportanceOfElsewhere(coverage, hotspotId, code) ==
  LET cov == MapGet(coverage, code)
      isBest == (IF cov = << >> THEN Undefined ELSE cov[1].bestHotspotId) = hotspotId
  IN [isBestAtThisHotspot |-> isBest,
      isCritical |->
        ~isBest /\ isLowCoverageSpecies(cov, DefaultPercentThreshold,
                                        DefaultObservationsThreshold)]

HotspotSpeciesImportanceOf(coverage, hotspotId, code) ==
  LET cov == MapGet(coverage, code)
  IN [isBestAtThisHotspot |->
        (IF cov = << >> THEN Undefined ELSE cov[1].bestHotspotId) = hotspotId,
      isCritical |->
        isLowCoverageSpecies(cov, DefaultPercentThreshold, DefaultObservationsThreshold)]

\* lines 137-156
\* (variant: isCritical from the coverage at the other saved hotspots)
getHotspotSpeciesImportanceElsewhere(targets, hotspotId) ==
  LET coverage == calculateSpeciesCoverage(targets, DefaultTopN)
      others == calculateSpeciesCoverage(
                  SelectSeq(targets, LAMBDA t : t.hotspotId # hotspotId), DefaultTopN)
      hotspotTarget == FindTarget(targets, hotspotId)
      items == IF hotspotTarget = << >> THEN << >> ELSE hotspotTarget[1].items
  IN [code \in {items[k].code : k \in 1..Len(items)} |->
        [isBestAtThisHotspot |->
           HotspotSpeciesImportanceOf(coverage, hotspotId, code).isBestAtThisHotspot,
         isCritical |-> HotspotSpeciesImportanceOf(others, hotspotId, code).isCritical]]

getHotspotSpeciesImportance(targets, hotspotId) ==
  LET coverage == calculateSpeciesCoverage(targets, DefaultTopN)
      hotspotTarget == FindTarget(targets, hotspotId)
      items == IF hotspotTarget = << >> THEN << >> ELSE hotspotTarget[1].items
  IN [code \in {items[k].code : k \in 1..Len(items)} |->
        HotspotSpeciesImportanceOf(coverage, hotspotId, code)]

\* ------------------------------------------------- getDaySpeciesImportance
\* lines 178-181
SpeciesCodes(targets) ==
  UNION {{targets[i].items[k].code : k \in 1..Len(targets[i].items)} : i \in 1..Len(targets)}

\* lines 183-184
GetPercent(targets, hotspotId, code) ==
  LET t == FindTarget(targets, hotspotId)
      it == IF t = << >> THEN << >> ELSE FindItem(t[1].items, code)
  IN IF it = << >> THEN 0 ELSE it[1].percent

\* lines 190-197, for one day
\* (variant: stops of every type are looked up)
DayBestPercentAnyType(targets, day, code) ==
  RunningMax([k \in 1..Len(day.locations) |->
                GetPercent(targets, day.locations[k].locationId, code)])

DayBestPercent(targets, day, code) ==
  LET hotspotStops == SelectSeq(day.locations, LAMBDA loc : loc.type = "hotspot")
  IN RunningMax([k \in 1..Len(hotspotStops) |->
                   GetPercent(targets, hotspotStops[k].locationId, code)])

\* lines 187-199; dayIndex is 0-based
DayBestPercents(targets, itin, code) ==
  [d \in 1..Len(itin) |->
     [dayIndex |-> d - 1, bestPercent |-> DayBestPercent(targets, itin[d], code)]]

\* line 200
\* (variant: a sort that reverses the day order of equal bestPercent)
SortedDaysUnstable(dayBestPercents) ==
  [p \in 1..Len(dayBestPercents) |->
     dayBestPercents[CHOOSE i \in 1..Len(dayBestPercents) :
       SortPositionUnstable([k \in 1..Len(dayBestPercents) |->
                               dayBestPercents[k].bestPercent], i) = p]]

SortedDays(dayBestPercents) ==
  StableSortDesc(dayBestPercents,
                 [i \in 1..Len(dayBestPercents) |-> dayBestPercents[i].bestPercent])

\* line 210
IsBestDay(dayIndex, top) == dayIndex = top.dayIndex

\* line 204; the lead is in hundredths of a point
\* (variant: > in place of >=)
IsSubstantiallyBetterStrict(topPercent, secondBestPercent) ==
  topPercent - secondBestPercent > BEST_DAY_MIN_LEAD_PERCENT * 100

IsSubstantiallyBetter(topPercent, secondBestPercent) ==
  topPercent - secondBestPercent >= BEST_DAY_MIN_LEAD_PERCENT * 100

\* lines 200-213: the entries one species contributes, keyed by dayIndex
\* (variant: a day is the best day when its bestPercent equals the top one)
DayImportanceOfByValue(targets, itin, code) ==
  LET dayBestPercents == DayBestPercents(targets, itin, code)
      sorted == SortedDays(dayBestPercents)
      top == sorted[1]
      secondBestPercent == IF Len(sorted) >= 2 THEN sorted[2].bestPercent ELSE 0
      isSubstantiallyBetter == IsSubstantiallyBetter(top.bestPercent, secondBestPercent)
      days == IF sorted = << >> \/ top.bestPercent = 0 THEN {}
              ELSE {d \in 1..Len(itin) : dayBestPercents[d].bestPercent # 0}
  IN [dayIndex \in {d - 1 : d \in days} |->
        [isBestDay |-> dayBestPercents[dayIndex + 1].bestPercent = top.bestPercent,
         isSubstantiallyBetterDay |->
           dayBestPercents[dayIndex + 1].bestPercent = top.bestPercent
             /\ isSubstantiallyBetter]]

DayImportanceOf(targets, itin, code) ==
  LET dayBestPercents == DayBestPercents(targets, itin, code)
      sorted == SortedDays(dayBestPercents)
      top == sorted[1]
      secondBestPercent == IF Len(sorted) >= 2 THEN sorted[2].bestPercent ELSE 0
      isSubstantiallyBetter == IsSubstantiallyBetter(top.bestPercent, secondBestPercent)
      days == IF sorted = << >> \/ top.bestPercent = 0 THEN {}
              ELSE {d \in 1..Len(itin) : dayBestPercents[d].bestPercent # 0}
  IN [dayIndex \in {d - 1 : d \in days} |->
        [isBestDay |-> IsBestDay(dayIndex, top),
         isSubstantiallyBetterDay |-> IsBestDay(dayIndex, top) /\ isSubstantiallyBetter]]

\* lines 169-217
\* (variant: a species map is created for every day of the itinerary)
getDaySpeciesImportanceEveryDay(targets, itin) ==
  IF Len(targets) = 0 \/ Len(itin) = 0 THEN << >>
  ELSE LET codes == SpeciesCodes(targets)
       IN [dayIndex \in {d - 1 : d \in 1..Len(itin)} |->
             [code \in {c \in codes : dayIndex \in DOMAIN DayImportanceOf(targets, itin, c)} |->
                DayImportanceOf(targets, itin, code)[dayIndex]]]

getDaySpeciesImportance(targets, itin) ==
  IF Len(targets) = 0 \/ Len(itin) = 0 THEN << >>
  ELSE LET codes == SpeciesCodes(targets)
           dayIndexes == UNION {DOMAIN DayImportanceOf(targets, itin, code) : code \in codes}
       IN [dayIndex \in dayIndexes |->
             [code \in {c \in codes : dayIndex \in DOMAIN DayImportanceOf(targets, itin, c)} |->
                DayImportanceOf(targets, itin, code)[dayIndex]]]

\* ------------- getBestHotspotsForSpecies, getAllHotspotsForSpecies
\* t.items.find((it) => it.code === speciesCode)?.percent ?? 0
ItemPercent(target, speciesCode) ==
  LET it == FindItem(target.items, speciesCode)
  IN IF it = << >> THEN 0 ELSE it[1].percent

\* locationIds.includes(id)
Includes(locationIds, id) == \E k \in 1..Len(locationIds) : locationIds[k] = id

\* hotspots.find((h) => h.id === t.hotspotId)?.name ?? "Hotspot"
HotspotName(directory, id) ==
  LET idx == {k \in 1..Len(directory) : directory[k].id = id}
  IN IF idx = {} THEN "Hotspot"
     ELSE directory[CHOOSE k \in idx : \A j \in idx : k <= j].name

\* lines 243-252, 273-282
RowOf(target, speciesCode, directory) ==
  [hotspotId |-> target.hotspotId,
   hotspotName |-> HotspotName(directory, target.hotspotId),
   percent |-> ItemPercent(target, speciesCode),
   N |-> target.N]

\* .map(...) of lines 243 and 273
MapRows(targets, speciesCode, directory) ==
  [k \in 1..Len(targets) |-> RowOf(targets[k], speciesCode, directory)]

\* lines 253, 283
SortRows(rs) == StableSortDesc(rs, [i \in 1..Len(rs) |-> rs[i].percent])

\* line 241; the cutoff is in points, the percent in hundredths
\* (variant: > in place of >=)
MeetsCutoffStrict(percent) == percent > HOTSPOT_TARGET_CUTOFF * 100

MeetsCutoff(percent) == percent >= HOTSPOT_TARGET_CUTOFF * 100

\* line 271
\* (variant: >= in place of >)
IsPositiveOrZero(percent) == percent >= 0

IsPositive(percent) == percent > 0

getBestHotspotsForSpecies(speciesCode, targets, locationIds, directory) ==
  SortRows(MapRows(SelectSeq(targets, LAMBDA t :
                               /\ ~LacksHotspotId(t)
                               /\ Includes(locationIds, t.hotspotId)
                               /\ MeetsCutoff(ItemPercent(t, speciesCode))),
                   speciesCode, directory))

\* lines 260-284
\* (variant: the rows are left in the order of allTargets)
getAllHotspotsForSpeciesUnsorted(speciesCode, targets, locationIds, directory) ==
  MapRows(SelectSeq(targets, LAMBDA t :
                      /\ ~LacksHotspotId(t)
                      /\ Includes(locationIds, t.hotspotId)
                      /\ IsPositive(ItemPercent(t, speciesCode))),
          speciesCode, directory)

getAllHotspotsForSpecies(speciesCode, targets, locationIds, directory) ==
  SortRows(MapRows(SelectSeq(targets, LAMBDA t :
                               /\ ~LacksHotspotId(t)
                               /\ Includes(locationIds, t.hotspotId)
                               /\ IsPositive(ItemPercent(t, speciesCode))),
                   speciesCode, directory))

\* ------------------------------------------------------------ input data
\* TargetItem (the display name is never read by lib/coverage and is left out)
Item(code, percent, percentYr) ==
  [code |-> code, percent |-> percent, percentYr |-> percentYr]

\* HotspotTargetData
Target(hotspotId, items, N, yrN) ==
  [hotspotId |-> hotspotId, items |-> items, N |-> N, yrN |-> yrN]

Percents == {4000, 6000}

Checklists == {0, 5, 20}

\* The saved location at position i of allTargets (one HotspotTargetData per
\* saved hotspot, one TargetItem per species in its items): trip-range
\* statistics of
\* one species (40%, 60%, 0%, 0.25% and 3%), no or two species, a target without
\* hotspotId, full-year statistics.
TargetChoices(i) ==
  {Target(HotspotIdAt(i), <<Item("ROBI", p, 2000)>>, n, 50) : p \in Percents, n \in Checklists}
  \cup {Target(HotspotIdAt(i), <<Item("ROBI", p, 2000)>>, 5, 50) : p \in {0, 25}}
  \cup {Target(HotspotIdAt(i), its, 20, 50) :
          its \in {<< >>, <<Item("X", 300, 1000)>>,
                   <<Item("X", 1000, 1000), Item("ROBI", 6000, 2000)>>}}
  \cup {Target(Undefined, <<Item(c, 9000, 9500)>>, 40, 200) : c \in Codes}
  \cup {Target(HotspotIdAt(i), <<Item("ROBI", 4000, y[1])>>, 5, y[2]) :
          y \in {<<3000, 100>>, <<8000, 10>>}}

RECURSIVE TargetArrays(_)
TargetArrays(n) ==
  IF n = 0 THEN {<< >>}
  ELSE {Append(t, x) : t \in TargetArrays(n - 1), x \in TargetChoices(n)}

CoverageInputs == UNION {TargetArrays(n) : n \in 0..MaxTargets}

\* An itinerary stop
Stop(type, locationId) == [type |-> type, locationId |-> locationId]

\* A Day: only its locations are read
DayOf(locations) == [locations |-> locations]

DayChoices ==
  {DayOf(l) : l \in {<< >>, <<Stop("hotspot", "H1")>>, <<Stop("hotspot", "H2")>>,
                     <<Stop("hotspot", "H1"), Stop("hotspot", "H2")>>,
                     <<Stop("marker", "H2"), Stop("hotspot", "H1")>>,
                     <<Stop("hotspot", "H9")>>}}

\* Two saved locations for the itineraries: the species at 0%, 26% or 30% at
\* the first and at 10%, 25% or 30% at the second; a second species at 5% at
\* the first only.
DayTargets ==
  {<<Target("H1", <<Item("ROBI", p1, 2000), Item("X", 500, 1000)>>, 20, 50),
     Target("H2", <<Item("ROBI", p2, 2000)>>, 20, 50)>> :
     p1 \in {0, 2600, 3000}, p2 \in {1000, 2500, 3000}}

Itineraries == UNION {[1..n -> DayChoices] : n \in 0..MaxDays}

TopNs == {0, 1, 2, DefaultTopN}

\* coverage arguments of isLowCoverageSpecies: absent, an entry computed from
\* the saved locations, or { maxPercent: 20, maxObservations: 3 }
CoverageArgs(targets) ==
  LET coverage == calculateSpeciesCoverage(targets, DefaultTopN)
  IN {<< >>} \cup {<<coverage[c]>> : c \in DOMAIN coverage}
     \cup {<<[code |-> "X", maxPercent |-> 2000, maxPercentYr |-> 2000,
              maxObservations |-> 30000, maxObservationsYr |-> 30000,
              bestHotspotId |-> "H1", weightedAvgPercent |-> 2000,
              totalChecklists |-> 15, hotspotCount |-> 1]>>}

ThresholdArgs == {<<DefaultPercentThreshold, DefaultObservationsThreshold>>, <<50, 2>>}

\* the directory of saved hotspots: H2 has no entry
Directory == <<[id |-> "H1", name |-> "One"], [id |-> "H3", name |-> "Three"]>>

\* locationIds arguments: every saved location, or the first only
LocationIdsArgs == {<<"H1", "H2", "H3", "H4">>, <<"H1">>}

\* ------------------------------------------------------------ state machine
\* Every operation is a pure function of an input snapshot built once per
\* analysis request: a behaviour is one snapshot and one call on it.
Init ==
  /\ \/ allTargets \in CoverageInputs /\ itinerary = << >>
     \/ allTargets \in DayTargets \cup {<< >>} /\ itinerary \in Itineraries
  /\ hotspotDirectory = Directory
  /\ call = [op |-> "none"]
  /\ coverageMap = << >>
  /\ isLow = FALSE
  /\ hotspotResult = << >>
  /\ dayResult = << >>
  /\ rows = << >>

CalculateSpeciesCoverage ==
  \E topN \in TopNs :
    /\ call.op = "none"
    /\ call' = [op |-> "calculateSpeciesCoverage", topN |-> topN]
    /\ coverageMap' = calculateSpeciesCoverage(allTargets, topN)
    /\ UNCHANGED <<allTargets, itinerary, hotspotDirectory, isLow, hotspotResult, dayResult, rows>>

IsLowCoverageSpecies ==
  \E coverage \in CoverageArgs(allTargets), th \in ThresholdArgs :
    /\ call.op = "none"
    /\ call' = [op |-> "isLowCoverageSpecies", coverage |-> coverage,
                percentThreshold |-> th[1], observationsThreshold |-> th[2]]
    /\ isLow' = isLowCoverageSpecies(coverage, th[1], th[2])
    /\ UNCHANGED <<allTargets, itinerary, hotspotDirectory, coverageMap, hotspotResult,
                   dayResult, rows>>

GetHotspotSpeciesImportance ==
  \E hotspotId \in HotspotIds :
    /\ call.op = "none"
    /\ call' = [op |-> "getHotspotSpeciesImportance", hotspotId |-> hotspotId]
    /\ hotspotResult' = getHotspotSpeciesImportance(allTargets, hotspotId)
    /\ UNCHANGED <<allTargets, itinerary, hotspotDirectory, coverageMap, isLow, dayResult, rows>>

GetDaySpeciesImportance ==
  /\ call.op = "none"
  /\ call' = [op |-> "getDaySpeciesImportance"]
  /\ dayResult' = getDaySpeciesImportance(allTargets, itinerary)
  /\ UNCHANGED <<allTargets, itinerary, hotspotDirectory, coverageMap, isLow, hotspotResult, rows>>

\* (variant: the sort of line 253 applied to allTargets itself)
GetBestHotspotsForSpeciesInPlace ==
  \E speciesCode \in Codes, locationIds \in LocationIdsArgs :
    /\ call.op = "none"
    /\ call' = [op |-> "getBestHotspotsForSpecies", speciesCode |-> speciesCode,
                locationIds |-> locationIds]
    /\ rows' = getBestHotspotsForSpecies(speciesCode, allTargets, locationIds,
                                         hotspotDirectory)
    /\ allTargets' = StableSortDesc(allTargets,
                                    [i \in 1..Len(allTargets) |->
                                       ItemPercent(allTargets[i], speciesCode)])
    /\ UNCHANGED <<itinerary, hotspotDirectory, coverageMap, isLow, hotspotResult,
                   dayResult>>

GetBestHotspotsForSpecies ==
  \E speciesCode \in Codes, locationIds \in LocationIdsArgs :
    /\ call.op = "none"
    /\ call' = [op |-> "getBestHotspotsForSpecies", speciesCode |-> speciesCode,
                locationIds |-> locationIds]
    /\ rows' = getBestHotspotsForSpecies(speciesCode, allTargets, locationIds, hotspotDirectory)
    /\ UNCHANGED <<allTargets, itinerary, hotspotDirectory, coverageMap, isLow, hotspotResult,
                   dayResult>>

GetAllHotspotsForSpecies ==
  \E speciesCode \in Codes, locationIds \in LocationIdsArgs :
    /\ call.op = "none"
    /\ call' = [op |-> "getAllHotspotsForSpecies", speciesCode |-> speciesCode,
                locationIds |-> locationIds]
    /\ rows' = getAllHotspotsForSpecies(speciesCode, allTargets, locationIds, hotspotDirectory)
    /\ UNCHANGED <<allTargets, itinerary, hotspotDirectory, coverageMap, isLow, hotspotResult,
                   dayResult>>

Next ==
  \/ CalculateSpeciesCoverage
  \/ IsLowCoverageSpecies
  \/ GetHotspotSpeciesImportance
  \/ GetDaySpeciesImportance
  \/ GetBestHotspotsForSpecies
  \/ GetAllHotspotsForSpecies

Spec == Init /\ [][Next]_vars

\* ------------------------------------------------- vocabulary of the claims
\* What the claims say is stated on the input array itself, by index.
IsCoverageCall == call.op = "calculateSpeciesCoverage"

\* the location at index i has a locationId
Qualifies(i) == allTargets[i].hotspotId # Undefined

\* the location at index i lists the species
Lists(i, code) == \E k \in 1..Len(allTargets[i].items) : allTargets[i].items[k].code = code

\* the qualifying locations listing the species
Listing(code) == {i \in 1..Len(allTargets) : Qualifies(i) /\ Lists(i, code)}

RecordAt(i, code) ==
  allTargets[i].items[CHOOSE k \in 1..Len(allTargets[i].items) :
                        allTargets[i].items[k].code = code]

PercentAt(i, code) == RecordAt(i, code).percent

PercentYrAt(i, code) == RecordAt(i, code).percentYr

\* the position of location i among the locations listing the species, in
\* the percent-descending order that keeps input order among equal percents
RankAt(i, code) ==
  1 + Cardinality({j \in Listing(code) :
                     \/ PercentAt(j, code) > PercentAt(i, code)
                     \/ PercentAt(j, code) = PercentAt(i, code) /\ j < i})

\* the first topK locations of that order
TopLocations(code, topK) == {i \in Listing(code) : RankAt(i, code) <= topK}

RECURSIVE SumOver(_, _)
SumOver(S, f) ==
  IF S = {} THEN 0
  ELSE LET x == CHOOSE x \in S : TRUE IN f[x] + SumOver(S \ {x}, f)

\* Sum of percent * N and of N over the top locations
TopWeighted(code, topK) ==
  SumOver(TopLocations(code, topK),
          [i \in 1..Len(allTargets) |->
             IF i \in Listing(code) THEN PercentAt(i, code) * allTargets[i].N ELSE 0])

TopChecklists(code, topK) ==
  SumOver(TopLocations(code, topK), [i \in 1..Len(allTargets) |-> allTargets[i].N])

\* ---------------------------------------------------------------------- C1
\* C1: the map returned by calculateSpeciesCoverage has a key for a species
\* code iff the code is in the items of a location that has a locationId, and
\* the map is the one computed from the array with the locations lacking a
\* locationId removed (they add no key and change no field).
C1_KeysAreQualifyingSpecies ==
  IsCoverageCall =>
    /\ DOMAIN coverageMap = {code \in Codes : Listing(code) # {}}
    /\ coverageMap = calculateSpeciesCoverage(
                  SelectSeq(allTargets, LAMBDA t : t.hotspotId # Undefined), call.topN)

\* a location without locationId lists a species that gets no key, next to a
\* qualifying location that lists another species
C1_Witness ==
  /\ IsCoverageCall
  /\ DOMAIN coverageMap # {}
  /\ \E i \in 1..Len(allTargets), code \in Codes :
       ~Qualifies(i) /\ Lists(i, code) /\ code \notin DOMAIN coverageMap

\* ---------------------------------------------------------------------- C2
\* C2: bestHotspotId is the locationId of the qualifying location with the
\* highest percent for the species; among several with the highest percent it
\* is the one that comes first in the input array.
C2_BestHotspotIsFirstHighest ==
  IsCoverageCall =>
    \A code \in DOMAIN coverageMap :
      \E i \in Listing(code) :
        /\ \A j \in Listing(code) : PercentAt(j, code) <= PercentAt(i, code)
        /\ \A j \in Listing(code) : PercentAt(j, code) = PercentAt(i, code) => i <= j
        /\ coverageMap[code].bestHotspotId = allTargets[i].hotspotId

\* two qualifying locations tie for the highest percent and the first one wins
C2_Witness ==
  /\ IsCoverageCall
  /\ \E code \in DOMAIN coverageMap :
       \E i, j \in Listing(code) :
         /\ i < j
         /\ PercentAt(i, code) = PercentAt(j, code)
         /\ PercentAt(i, code) = coverageMap[code].maxPercent
         /\ coverageMap[code].bestHotspotId = allTargets[i].hotspotId

\* ---------------------------------------------------------------------- C3
\* C3: maxPercent is the highest percent of the species over all qualifying
\* locations, whatever topK is; it is the percent recorded at the location
\* named by bestHotspotId; and it is within 0..100 (0..10000 hundredths).
C3_MaxPercentIsHighest ==
  IsCoverageCall =>
    \A code \in DOMAIN coverageMap :
      /\ \A i \in Listing(code) : PercentAt(i, code) <= coverageMap[code].maxPercent
      /\ \E i \in Listing(code) : PercentAt(i, code) = coverageMap[code].maxPercent
      /\ \A i \in Listing(code) :
           allTargets[i].hotspotId = coverageMap[code].bestHotspotId
             => PercentAt(i, code) = coverageMap[code].maxPercent
      /\ \E i \in Listing(code) : allTargets[i].hotspotId = coverageMap[code].bestHotspotId
      /\ 0 <= coverageMap[code].maxPercent /\ coverageMap[code].maxPercent <= 10000

\* topK = 1 leaves a lower location out of the average, and the highest
\* percent is at the second location of the array
C3_Witness ==
  /\ IsCoverageCall
  /\ call.topN = 1
  /\ \E code \in DOMAIN coverageMap :
       /\ Cardinality(Listing(code)) >= 2
       /\ \E i, j \in Listing(code) :
            i < j /\ PercentAt(i, code) < PercentAt(j, code)
            /\ coverageMap[code].maxPercent = PercentAt(j, code)

\* ---------------------------------------------------------------------- C4
\* C4: weightedAvgPercent is Sum(percent * N) / Sum(N) over the first topK
\* locations of the percent-descending stable order, rounded to one decimal
\* with halves away from zero (for a non-negative mean: the multiple w of
\* 0.1 with w - 0.05 <= mean < w + 0.05); and
\* H1 (N=20, 40%), H2 (N=5, 60%) with topK = 5 gives 44.0, H2, 60 and 2.
ScenarioA ==
  /\ Len(allTargets) = 2
  /\ \A i \in 1..2 : Len(allTargets[i].items) = 1 /\ allTargets[i].items[1].code = "ROBI"
  /\ allTargets[1].hotspotId = "H1" /\ allTargets[1].N = 20
  /\ allTargets[1].items[1].percent = 4000
  /\ allTargets[2].hotspotId = "H2" /\ allTargets[2].N = 5
  /\ allTargets[2].items[1].percent = 6000

C4_WeightedAvgIsRoundedMean ==
  IsCoverageCall =>
    /\ \A code \in DOMAIN coverageMap :
         LET sumPN == TopWeighted(code, call.topN)
             sumN == TopChecklists(code, call.topN)
             w == coverageMap[code].weightedAvgPercent
         IN sumN > 0 =>
              /\ w % 10 = 0
              /\ 2 * w * sumN - 10 * sumN <= 2 * sumPN
              /\ 2 * sumPN < 2 * w * sumN + 10 * sumN
    /\ (ScenarioA /\ call.topN = DefaultTopN) =>
         /\ coverageMap["ROBI"].weightedAvgPercent = 4400
         /\ coverageMap["ROBI"].bestHotspotId = "H2"
         /\ coverageMap["ROBI"].maxPercent = 6000
         /\ coverageMap["ROBI"].hotspotCount = 2

\* the scenario itself, computed with the default topK
C4_Witness ==
  /\ IsCoverageCall
  /\ ScenarioA
  /\ call.topN = DefaultTopN
  /\ coverageMap["ROBI"].weightedAvgPercent = 4400

\* ---------------------------------------------------------------------- C5
IsMaxOf(v, S) == v \in S /\ \A x \in S : x <= v

IsMinOf(v, S) == v \in S /\ \A x \in S : v <= x

TopPercents(code, topK) == {PercentAt(i, code) : i \in TopLocations(code, topK)}

\* C5 as stated: 0 <= weightedAvgPercent <= 100 and weightedAvgPercent is
\* between the lowest and the highest percent of the top-K locations used,
\* also when some or all of them have N = 0.
C5_Original ==
  IsCoverageCall =>
    \A code \in DOMAIN coverageMap :
      LET w == coverageMap[code].weightedAvgPercent
          used == TopPercents(code, call.topN)
      IN /\ 0 <= w /\ w <= 10000
         /\ used # {} => \E lo \in used, hi \in used :
                           IsMinOf(lo, used) /\ IsMaxOf(hi, used) /\ lo <= w /\ w <= hi

\* C5 (amended): 0 <= weightedAvgPercent <= 100; when the sum of N over the
\* top-K locations used is positive, weightedAvgPercent is within 0.05 of the
\* range from their lowest to their highest percent (min - 0.05 < w <=
\* max + 0.05); when that sum is 0, weightedAvgPercent is 0.
C5_WeightedAvgWithinRoundedRange ==
  IsCoverageCall =>
    \A code \in DOMAIN coverageMap :
      LET w == coverageMap[code].weightedAvgPercent
          used == TopPercents(code, call.topN)
      IN /\ 0 <= w /\ w <= 10000
         /\ TopChecklists(code, call.topN) > 0 =>
              \E lo \in used, hi \in used :
                IsMinOf(lo, used) /\ IsMaxOf(hi, used) /\ lo - 5 < w /\ w <= hi + 5
         /\ TopChecklists(code, call.topN) = 0 => w = 0

\* every top-K location has N = 0 and a positive percent: the average is 0,
\* below the lowest percent used
C5_Witness ==
  /\ IsCoverageCall
  /\ \E code \in DOMAIN coverageMap :
       /\ TopLocations(code, call.topN) # {}
       /\ TopChecklists(code, call.topN) = 0
       /\ \A x \in TopPercents(code, call.topN) : x > 0
       /\ coverageMap[code].weightedAvgPercent = 0

\* ---------------------------------------------------------------------- C6
\* C6: maxPercentYr, maxObservationsYr (percentYr * yrN / 100) and
\* maxObservations (percent * N / 100) are the maxima over all qualifying
\* locations listing the species, whatever topK is.
C6_MaximaOverAllLocations ==
  IsCoverageCall =>
    \A code \in DOMAIN coverageMap :
      /\ IsMaxOf(coverageMap[code].maxPercentYr, {PercentYrAt(i, code) : i \in Listing(code)})
      /\ IsMaxOf(coverageMap[code].maxObservationsYr,
                 {PercentYrAt(i, code) * allTargets[i].yrN : i \in Listing(code)})
      /\ IsMaxOf(coverageMap[code].maxObservations,
                 {PercentAt(i, code) * allTargets[i].N : i \in Listing(code)})

\* a location outside the top-K by percent has the largest percent * N and
\* sets maxObservations
C6_Witness ==
  /\ IsCoverageCall
  /\ \E code \in DOMAIN coverageMap :
       \E i \in Listing(code) \ TopLocations(code, call.topN) :
         /\ TopLocations(code, call.topN) # {}
         /\ \A j \in Listing(code) \ {i} :
              PercentAt(j, code) * allTargets[j].N < PercentAt(i, code) * allTargets[i].N
         /\ coverageMap[code].maxObservations = PercentAt(i, code) * allTargets[i].N

\* ---------------------------------------------------------------------- C7
IsLowCoverageCall == call.op = "isLowCoverageSpecies"

\* C7: isLowCoverageSpecies is true exactly when the coverage is absent, or
\* maxPercent < percentThreshold, or maxObservations < observationsThreshold;
\* { maxPercent: 20, maxObservations: 3 } is low coverage with the defaults
\* 15 and 10.
C7_LowCoverageIsEitherBelow ==
  IsLowCoverageCall =>
    /\ isLow <=>
         \/ call.coverage = << >>
         \/ call.coverage # << >> /\ call.coverage[1].maxPercent < 100 * call.percentThreshold
         \/ call.coverage # << >>
            /\ call.coverage[1].maxObservations < 10000 * call.observationsThreshold
    /\ ~isLow <=>
         /\ call.coverage # << >>
         /\ call.coverage[1].maxPercent >= 100 * call.percentThreshold
         /\ call.coverage[1].maxObservations >= 10000 * call.observationsThreshold
    /\ ( /\ call.coverage # << >>
         /\ call.coverage[1].maxPercent = 2000
         /\ call.coverage[1].maxObservations = 30000
         /\ call.percentThreshold = 15
         /\ call.observationsThreshold = 10 ) => isLow

\* maxPercent 20 passes the percent threshold, maxObservations 3 fails the
\* observations threshold
C7_Witness ==
  /\ IsLowCoverageCall
  /\ call.coverage # << >>
  /\ call.coverage[1].maxPercent = 2000
  /\ call.coverage[1].maxObservations = 30000
  /\ call.percentThreshold = DefaultPercentThreshold
  /\ call.observationsThreshold = DefaultObservationsThreshold
  /\ isLow

\* ---------------------------------------------------------------------- C8
IsHotspotImportanceCall == call.op = "getHotspotSpeciesImportance"

\* the locations of the input array with the queried id
Matching == {i \in 1..Len(allTargets) : allTargets[i].hotspotId = call.hotspotId}

IsDayImportanceCall == call.op = "getDaySpeciesImportance"

DayIndexes == {d - 1 : d \in 1..Len(itinerary)}

\* the day's bestPercent for the species
BestPercentOn(dayIndex, code) == DayBestPercent(allTargets, itinerary[dayIndex + 1], code)

\* top: the highest bestPercent of the species over all days
TopPercent(code) ==
  CHOOSE v \in {BestPercentOn(d, code) : d \in DayIndexes} :
    \A d \in DayIndexes : BestPercentOn(d, code) <= v

\* second: the bestPercent of the second-ranked day, 0 with a single day
SecondPercent(code) ==
  IF Len(itinerary) < 2 THEN 0
  ELSE LET t == CHOOSE d \in DayIndexes : BestPercentOn(d, code) = TopPercent(code)
       IN CHOOSE v \in {BestPercentOn(d, code) : d \in DayIndexes \ {t}} :
            \A d \in DayIndexes \ {t} : BestPercentOn(d, code) <= v

HasEntry(dayIndex, code) ==
  dayIndex \in DOMAIN dayResult /\ code \in DOMAIN dayResult[dayIndex]

\* the (day, species) pairs with nonzero bestPercent
NonzeroPairs ==
  {pair \in DayIndexes \X SpeciesCodes(allTargets) : BestPercentOn(pair[1], pair[2]) # 0}

\* C9 as stated: for every species and every day with nonzero bestPercent,
\* isBestDay is true iff the day's bestPercent equals top, so each of several
\* tied days has isBestDay = true.
C9_Original ==
  IsDayImportanceCall =>
    \A pair \in NonzeroPairs :
      /\ HasEntry(pair[1], pair[2])
      /\ dayResult[pair[1]][pair[2]].isBestDay <=>
           BestPercentOn(pair[1], pair[2]) = TopPercent(pair[2])

\* C9 (amended): for every species and every day with nonzero bestPercent,
\* isBestDay is true iff the day is the earliest day whose bestPercent equals
\* top; a later day that ties for top has isBestDay = false.
C9_BestDayIsEarliestTop ==
  IsDayImportanceCall =>
    \A pair \in NonzeroPairs :
      /\ HasEntry(pair[1], pair[2])
      /\ dayResult[pair[1]][pair[2]].isBestDay <=>
           /\ BestPercentOn(pair[1], pair[2]) = TopPercent(pair[2])
           /\ \A e \in DayIndexes :
                e < pair[1] => BestPercentOn(e, pair[2]) # TopPercent(pair[2])

\* two days tie for top: the earlier is the best day, the later is not
C9_Witness ==
  /\ IsDayImportanceCall
  /\ \E code \in Codes : \E d, e \in DayIndexes :
       /\ d < e
       /\ BestPercentOn(d, code) = TopPercent(code)
       /\ BestPercentOn(e, code) = TopPercent(code)
       /\ TopPercent(code) # 0
       /\ HasEntry(d, code) /\ dayResult[d][code].isBestDay
       /\ HasEntry(e, code) /\ ~dayResult[e][code].isBestDay

\* C10: isSubstantiallyBetterDay is true for an entry iff isBestDay is true
\* for it and top - second >= 5; bestPercent 30 on day 0 and 10 on day 1
\* gives day 0 {true, true} and day 1 {false, false}.
ScenarioC(code) ==
  /\ Len(itinerary) = 2
  /\ BestPercentOn(0, code) = 3000
  /\ BestPercentOn(1, code) = 1000

C10_SubstantiallyBetterIsLeadOfFive ==
  IsDayImportanceCall =>
    /\ \A pair \in NonzeroPairs :
         /\ HasEntry(pair[1], pair[2])
         /\ dayResult[pair[1]][pair[2]].isSubstantiallyBetterDay <=>
              /\ dayResult[pair[1]][pair[2]].isBestDay
              /\ TopPercent(pair[2]) - SecondPercent(pair[2]) >= 500
    /\ \A code \in Codes :
         ScenarioC(code) =>
           /\ dayResult[0][code] = [isBestDay |-> TRUE, isSubstantiallyBetterDay |-> TRUE]
           /\ dayResult[1][code] = [isBestDay |-> FALSE, isSubstantiallyBetterDay |-> FALSE]

\* the scenario, and what it returns
C10_Witness ==
  /\ IsDayImportanceCall
  /\ ScenarioC("ROBI")
  /\ dayResult[0]["ROBI"].isSubstantiallyBetterDay
  /\ ~dayResult[1]["ROBI"].isSubstantiallyBetterDay

\* -------------------------------------------------------------------- C11
\* C11: the output of getDaySpeciesImportance has an entry for (dayIndex,
\* species) iff that day's bestPercent for the species is greater than 0; a
\* species whose bestPercent is 0 on every day is in no day's map, no day maps
\* to an empty species map, and the output is empty when allTargets or the
\* itinerary is empty.
C11_EntryIffPositiveBestPercent ==
  IsDayImportanceCall =>
    /\ DOMAIN dayResult \subseteq DayIndexes
    /\ \A dayIndex \in DayIndexes : \A code \in Codes :
         HasEntry(dayIndex, code) <=> BestPercentOn(dayIndex, code) > 0
    /\ \A dayIndex \in DOMAIN dayResult : DOMAIN dayResult[dayIndex] # {}
    /\ (Len(allTargets) = 0 \/ Len(itinerary) = 0) => DOMAIN dayResult = {}

\* one species is seen on a day, another listed species is seen on no day, and
\* one day of the itinerary has no map
C11_Witness ==
  /\ IsDayImportanceCall
  /\ \E seen, unseen \in SpeciesCodes(allTargets) :
       /\ \E dayIndex \in DayIndexes : HasEntry(dayIndex, seen)
       /\ \A dayIndex \in DayIndexes :
            BestPercentOn(dayIndex, unseen) = 0 /\ ~HasEntry(dayIndex, unseen)
  /\ \E dayIndex \in DayIndexes : dayIndex \notin DOMAIN dayResult

\* --------------------------------------------------------------- C12, C13
IsBestHotspotsCall == call.op = "getBestHotspotsForSpecies"

IsAllHotspotsCall == call.op = "getAllHotspotsForSpecies"

\* the percent of the queried species at the location at index i, 0 if absent
QueriedPercentAt(i) ==
  IF Lists(i, call.speciesCode) THEN PercentAt(i, call.speciesCode) ELSE 0

\* the location at index i has a locationId, and it is one of the allowed ids
Allowed(i) ==
  /\ Qualifies(i)
  /\ \E k \in 1..Len(call.locationIds) : call.locationIds[k] = allTargets[i].hotspotId

AtOrAboveCutoff == {i \in 1..Len(allTargets) :
                      Allowed(i) /\ QueriedPercentAt(i) >= HOTSPOT_TARGET_CUTOFF * 100}

AbovePercentZero == {i \in 1..Len(allTargets) : Allowed(i) /\ QueriedPercentAt(i) > 0}

\* the name the directory gives for the id, or the placeholder
DirectoryName(id) ==
  IF \E k \in 1..Len(hotspotDirectory) : hotspotDirectory[k].id = id
  THEN hotspotDirectory[CHOOSE k \in 1..Len(hotspotDirectory) :
                          hotspotDirectory[k].id = id].name
  ELSE "Hotspot"

\* the position of location i among the locations S: percent descending,
\* ties in input order
RowRankAt(S, i) ==
  1 + Cardinality({j \in S : \/ QueriedPercentAt(j) > QueriedPercentAt(i)
                             \/ QueriedPercentAt(j) = QueriedPercentAt(i) /\ j < i})

\* rows holds exactly one row per location of S, in that order
RowsAreExactly(S) ==
  /\ Len(rows) = Cardinality(S)
  /\ \A i \in S :
       rows[RowRankAt(S, i)] = [hotspotId |-> allTargets[i].hotspotId,
                                hotspotName |-> DirectoryName(allTargets[i].hotspotId),
                                percent |-> QueriedPercentAt(i),
                                N |-> allTargets[i].N]

\* C12: getBestHotspotsForSpecies returns exactly one row per input location
\* that has a hotspotId, whose id is in locationIds and whose percent for the
\* species (0 if absent) is at least the cutoff; the row carries the location's
\* id, percent and N and the directory's name for the id, or "Hotspot" when the
\* directory has no such id; rows are in percent-descending order, ties in
\* input order.
C12_BestRowsAreAllowedAtCutoff ==
  IsBestHotspotsCall => RowsAreExactly(AtOrAboveCutoff)

\* two rows with equal percent in input order, the first named by the
\* directory and the second by the placeholder
C12_Witness ==
  /\ IsBestHotspotsCall
  /\ Len(allTargets) = 2
  /\ Len(rows) = 2
  /\ rows[1].percent = rows[2].percent
  /\ rows[1].N # rows[2].N
  /\ rows[1].hotspotId = allTargets[1].hotspotId /\ rows[1].hotspotName = "One"
  /\ rows[2].hotspotId = allTargets[2].hotspotId /\ rows[2].hotspotName = "Hotspot"

\* what getBestHotspotsForSpecies returns for the arguments of the call
BestRowsOfCall ==
  getBestHotspotsForSpecies(call.speciesCode, allTargets, call.locationIds,
                            hotspotDirectory)

\* the location at index i has a row in rs
HasRowIn(rs, i) == \E p \in 1..Len(rs) : rs[p].hotspotId = allTargets[i].hotspotId

\* C13: getAllHotspotsForSpecies behaves as getBestHotspotsForSpecies except
\* that the filter is percent > 0: an allowed location where the species'
\* percent is positive but below the cutoff (3 with cutoff 5) has no row from
\* getBestHotspotsForSpecies and has one from getAllHotspotsForSpecies; a
\* location where the species is absent or has percent 0 has a row in neither.
C13_AllRowsAreAllowedAbovePercentZero ==
  IsAllHotspotsCall =>
    /\ RowsAreExactly(AbovePercentZero)
    /\ \A i \in 1..Len(allTargets) :
         /\ (/\ Allowed(i)
             /\ QueriedPercentAt(i) > 0
             /\ QueriedPercentAt(i) < HOTSPOT_TARGET_CUTOFF * 100)
              => ~HasRowIn(BestRowsOfCall, i) /\ HasRowIn(rows, i)
         /\ (Qualifies(i) /\ QueriedPercentAt(i) = 0)
              => ~HasRowIn(BestRowsOfCall, i) /\ ~HasRowIn(rows, i)

\* Scenario D: the species is at 3% at H1, the only allowed id, and absent at
\* the other location
C13_Witness ==
  /\ IsAllHotspotsCall
  /\ call.locationIds = <<"H1">>
  /\ Len(allTargets) = 2
  /\ allTargets[1].hotspotId = "H1"
  /\ QueriedPercentAt(1) = 300
  /\ Qualifies(2) /\ ~Lists(2, call.speciesCode)
  /\ BestRowsOfCall = << >>
  /\ Len(rows) = 1 /\ rows[1].hotspotId = "H1" /\ rows[1].percent = 300

\* -------------------------------------------------------------------- C14
\* C14: no operation mutates its inputs: across every call allTargets (the
\* array, and the order and content of every location's items), the itinerary
\* and the directory are unchanged, although the operations sort internally.
C14_InputsAreNotMutated ==
  [][/\ allTargets' = allTargets
     /\ itinerary' = itinerary
     /\ hotspotDirectory' = hotspotDirectory]_vars

\* a call whose sort put the second location first: the rows are in percent
\* order and allTargets is still in the order it was built in
C14_Witness ==
  /\ IsBestHotspotsCall
  /\ Len(allTargets) = 2 /\ Len(rows) = 2
  /\ rows[1].hotspotId = "H2" /\ rows[2].hotspotId = "H1"
  /\ rows[1].percent > rows[2].percent
  /\ allTargets[1].hotspotId = "H1" /\ allTargets[2].hotspotId = "H2"
  /\ QueriedPercentAt(1) < QueriedPercentAt(2)

\* --------------------------------------------------------------- C15, C16
\* C15: when the sum of N over a species' top-K locations is 0,
\* calculateSpeciesCoverage still has an entry for the species, with
\* weightedAvgPercent = 0 and totalChecklists = 0, whatever the percents.
C15_ZeroChecklistsGiveZeroAverage ==
  IsCoverageCall =>
    \A code \in Codes :
      (Listing(code) # {} /\ TopChecklists(code, call.topN) = 0) =>
        /\ code \in DOMAIN coverageMap
        /\ coverageMap[code].weightedAvgPercent = 0
        /\ coverageMap[code].totalChecklists = 0

\* two top locations at 40% and 60% without checklists: the entry is there,
\* with maxPercent 60 and both sums at 0
C15_Witness ==
  /\ IsCoverageCall
  /\ call.topN >= 2
  /\ \E code \in DOMAIN coverageMap :
       /\ Cardinality(TopLocations(code, call.topN)) = 2
       /\ \A i \in TopLocations(code, call.topN) : allTargets[i].N = 0
       /\ TopPercents(code, call.topN) = {4000, 6000}
       /\ coverageMap[code].maxPercent = 6000
       /\ coverageMap[code].weightedAvgPercent = 0
       /\ coverageMap[code].totalChecklists = 0

\* C16: for every species and every topN >= 0, hotspotCount is the smaller of
\* topN and the number of qualifying locations listing the species, and
\* totalChecklists is the sum of N over exactly those hotspotCount locations
\* that rank first in the percent-descending stable order; so hotspotCount
\* never exceeds topN.
C16_HotspotCountIsMinOfTopN ==
  (IsCoverageCall /\ call.topN >= 0) =>
    \A code \in DOMAIN coverageMap :
      /\ coverageMap[code].hotspotCount = MinOf(call.topN, Cardinality(Listing(code)))
      /\ coverageMap[code].hotspotCount <= call.topN
      /\ Cardinality(TopLocations(code, call.topN)) = coverageMap[code].hotspotCount
      /\ coverageMap[code].totalChecklists = TopChecklists(code, call.topN)

\* topN = 1 with two locations listing the species: one is counted, and the
\* checklists are those of the higher-percent location only
C16_Witness ==
  /\ IsCoverageCall
  /\ call.topN = 1
  /\ \E code \in DOMAIN coverageMap : \E i, j \in Listing(code) :
       /\ PercentAt(i, code) > PercentAt(j, code)
       /\ allTargets[i].N # 0 /\ allTargets[j].N # 0
       /\ coverageMap[code].hotspotCount = 1
       /\ coverageMap[code].totalChecklists = allTargets[i].N

\* -------------------------------------------------------------------- C17
\* the itinerary without its marker stops
WithoutMarkers(itin) ==
  [d \in 1..Len(itin) |->
     DayOf(SelectSeq(itin[d].locations, LAMBDA loc : loc.type # "marker"))]

\* the percents of the species at the saved locations that the day's stops of
\* the hotspot type name
HotspotStopPercents(dayIndex, code) ==
  {PercentAt(i, code) :
     i \in {j \in 1..Len(allTargets) :
              /\ Lists(j, code)
              /\ \E k \in 1..Len(itinerary[dayIndex + 1].locations) :
                   /\ itinerary[dayIndex + 1].locations[k].type = "hotspot"
                   /\ itinerary[dayIndex + 1].locations[k].locationId =
                        allTargets[j].hotspotId}}

\* C17: in getDaySpeciesImportance a day's bestPercent for a species is the
\* maximum of the species' percent over that day's stops of the hotspot type
\* only, 0 when there are none or the species is absent at all of them; marker
\* stops, even one whose locationId is the id of a saved location, never
\* change the output.
C17_OnlyHotspotStopsCount ==
  IsDayImportanceCall =>
    /\ \A dayIndex \in DayIndexes : \A code \in Codes :
         /\ IsMaxOf(BestPercentOn(dayIndex, code),
                    HotspotStopPercents(dayIndex, code) \cup {0})
         /\ HasEntry(dayIndex, code) <=>
              \E p \in HotspotStopPercents(dayIndex, code) : p > 0
    /\ dayResult = getDaySpeciesImportance(allTargets, WithoutMarkers(itinerary))

\* a day with a marker stop at H2 and a hotspot stop at H1, where the species
\* is at 0% at H1 and at more at H2: the day has no entry for the species
C17_Witness ==
  /\ IsDayImportanceCall
  /\ \E dayIndex \in DayIndexes : \E code \in Codes :
       /\ itinerary[dayIndex + 1].locations = <<Stop("marker", "H2"), Stop("hotspot", "H1")>>
       /\ GetPercent(allTargets, "H1", code) = 0
       /\ GetPercent(allTargets, "H2", code) > 0
       /\ Lists(1, code)
       /\ ~HasEntry(dayIndex, code)

\* -------------------------------------------------------------------- C18
\* the days flagged as the best day, and as the substantially better day, of
\* the species
BestDaysOf(code) ==
  {d \in DayIndexes : HasEntry(d, code) /\ dayResult[d][code].isBestDay}

SubstantiallyBetterDaysOf(code) ==
  {d \in DayIndexes : HasEntry(d, code) /\ dayResult[d][code].isSubstantiallyBetterDay}

\* the days whose bestPercent is the highest of the species, when it is not 0
TopDaysOf(code) ==
  {d \in DayIndexes : BestPercentOn(d, code) = TopPercent(code) /\ TopPercent(code) # 0}

\* C18: for every species getDaySpeciesImportance flags isBestDay = true on at
\* most one day index; when several days tie for the highest bestPercent only
\* the earliest of them in itinerary order is flagged, and then no day is
\* flagged isSubstantiallyBetterDay for the species.
C18_AtMostOneBestDay ==
  IsDayImportanceCall =>
    \A code \in Codes :
      /\ Cardinality(BestDaysOf(code)) <= 1
      /\ Cardinality(TopDaysOf(code)) >= 2 =>
           /\ BestDaysOf(code) = {CHOOSE d \in TopDaysOf(code) :
                                    \A e \in TopDaysOf(code) : d <= e}
           /\ SubstantiallyBetterDaysOf(code) = {}

\* two days tie at the top: one best day, the first, and no substantially
\* better day
C18_Witness ==
  /\ IsDayImportanceCall
  /\ \E code \in Codes :
       /\ TopDaysOf(code) = {0, 1}
       /\ BestDaysOf(code) = {0}
       /\ HasEntry(1, code)
       /\ SubstantiallyBetterDaysOf(code) = {}

\* -------------------------------------------------------------------- C19
\* the qualifying locations at which getHotspotSpeciesImportance reports the
\* species as best
BestAtLocations(code) ==
  {i \in 1..Len(allTargets) :
     /\ Qualifies(i)
     /\ LET importance == getHotspotSpeciesImportance(allTargets, allTargets[i].hotspotId)
        IN code \in DOMAIN importance /\ importance[code].isBestAtThisHotspot}

\* C19: every entry of calculateSpeciesCoverage has a defined bestHotspotId,
\* the id of a qualifying location whose items include the species, even when
\* the species' percent is 0 everywhere; so, location ids being pairwise
\* distinct, getHotspotSpeciesImportance reports isBestAtThisHotspot = true
\* for a species at exactly one location.
C19_ExactlyOneBestLocation ==
  /\ IsCoverageCall =>
       \A code \in DOMAIN coverageMap :
         /\ coverageMap[code].bestHotspotId # Undefined
         /\ \E i \in Listing(code) : allTargets[i].hotspotId = coverageMap[code].bestHotspotId
  /\ IsHotspotImportanceCall =>
       \A code \in Codes :
         Listing(code) # {} =>
           LET best == BestAtLocations(code)
           IN /\ Cardinality(best) = 1
              /\ \A i \in Listing(code) :
                   allTargets[i].hotspotId = call.hotspotId =>
                     /\ code \in DOMAIN hotspotResult
                     /\ hotspotResult[code].isBestAtThisHotspot <=> i \in best

\* the species is at 0% at both locations listing it: it is best at the
\* queried, first one and not at the other
C19_Witness ==
  /\ IsHotspotImportanceCall
  /\ \E code \in DOMAIN hotspotResult :
       /\ Listing(code) = {1, 2}
       /\ PercentAt(1, code) = 0 /\ PercentAt(2, code) = 0
       /\ call.hotspotId = allTargets[1].hotspotId
       /\ hotspotResult[code].isBestAtThisHotspot
       /\ BestAtLocations(code) = {1}

Permuted(perm) == [k \in 1..Len(allTargets) |-> allTargets[perm[k]]]

\* no two qualifying locations have equal percent for the species
DistinctPercents(code) ==
  \A i, j \in Listing(code) : i # j => PercentAt(i, code) # PercentAt(j, code)

\* C21: maxPercent, maxPercentYr, maxObservations, maxObservationsYr and
\* hotspotCount of every entry of calculateSpeciesCoverage are unchanged under
\* any permutation of allTargets; bestHotspotId, weightedAvgPercent and
\* totalChecklists are unchanged too when no two qualifying locations have
\* equal percent for the species.
C21_CoverageUnderPermutation ==
  IsCoverageCall =>
    \A perm \in Permutations(1..Len(allTargets)) :
      LET other == calculateSpeciesCoverage(Permuted(perm), call.topN)
      IN /\ DOMAIN other = DOMAIN coverageMap
         /\ \A code \in DOMAIN coverageMap :
              /\ other[code].maxPercent = coverageMap[code].maxPercent
              /\ other[code].maxPercentYr = coverageMap[code].maxPercentYr
              /\ other[code].maxObservations = coverageMap[code].maxObservations
              /\ other[code].maxObservationsYr = coverageMap[code].maxObservationsYr
              /\ other[code].hotspotCount = coverageMap[code].hotspotCount
              /\ DistinctPercents(code) =>
                   /\ other[code].bestHotspotId = coverageMap[code].bestHotspotId
                   /\ other[code].weightedAvgPercent = coverageMap[code].weightedAvgPercent
                   /\ other[code].totalChecklists = coverageMap[code].totalChecklists

\* topN = 1 and two locations with different percents and N, the higher
\* percent at the second: the best location and the checklists counted are
\* those of the second, in either order of the array
C21_Witness ==
  /\ IsCoverageCall
  /\ call.topN = 1
  /\ Len(allTargets) = 2
  /\ \E code \in DOMAIN coverageMap :
       /\ Listing(code) = {1, 2}
       /\ PercentAt(1, code) < PercentAt(2, code)
       /\ allTargets[1].N # allTargets[2].N
       /\ coverageMap[code].bestHotspotId = allTargets[2].hotspotId
       /\ coverageMap[code].totalChecklists = allTargets[2].N
       /\ calculateSpeciesCoverage(<<allTargets[2], allTargets[1]>>, 1)[code].bestHotspotId
            = allTargets[2].hotspotId

\* -------------------------------------------------------------------- C22
\* what getAllHotspotsForSpecies returns for the arguments of the call
AllRowsOfCall ==
  getAllHotspotsForSpecies(call.speciesCode, allTargets, call.locationIds,
                           hotspotDirectory)

\* a is b with some elements left out: the same rows in the same relative order
IsSubsequence(a, b) ==
  \E f \in [1..Len(a) -> 1..Len(b)] :
    /\ \A k \in 1..Len(a) : b[f[k]] = a[k]
    /\ \A k, m \in 1..Len(a) : k < m => f[k] < f[m]

\* C22: with the same arguments and a cutoff above 0, the rows of
\* getBestHotspotsForSpecies are a subsequence of the rows of
\* getAllHotspotsForSpecies (same rows, same relative order); so when the
\* former is not empty the latter is not empty either.
C22_BestRowsAreSubsequenceOfAllRows ==
  HOTSPOT_TARGET_CUTOFF > 0 =>
    /\ IsAllHotspotsCall =>
         /\ IsSubsequence(BestRowsOfCall, rows)
         /\ BestRowsOfCall # << >> => rows # << >>
    /\ IsBestHotspotsCall =>
         /\ IsSubsequence(rows, AllRowsOfCall)
         /\ rows # << >> => AllRowsOfCall # << >>

\* the species is at 3% at the first location and at 10% at the second: both
\* have a row, the second first, and only that row is at the cutoff
C22_Witness ==
  /\ IsAllHotspotsCall
  /\ Len(allTargets) = 2
  /\ QueriedPercentAt(1) = 300 /\ QueriedPercentAt(2) = 1000
  /\ Len(rows) = 2
  /\ rows[1].hotspotId = allTargets[2].hotspotId
  /\ rows[2].hotspotId = allTargets[1].hotspotId
  /\ BestRowsOfCall = <<rows[1]>>

====
